---- MODULE Spec2Model ----
(***************************************************************************)
(* oom_alloc.c: a parent process maps an anonymous region (shared or       *)
(* private), fills it, makes it read-only, forks NUM_CHLD children that    *)
(* sleep and exit, reaps them, unmaps the region, and prints the           *)
(* Committed_AS line of /proc/meminfo after each step.                     *)
(*                                                                         *)
(* The model follows main() statement by statement.  The parent's position *)
(* is pc; print_mem_commit() is a sub-procedure whose return address is    *)
(* the checkpoint number cp.  stdout is a stdio stream: line-buffered when *)
(* it is a terminal (tty), fully buffered otherwise; fork() copies the     *)
(* stream's buffer into the child and exit() flushes it.                   *)
(***************************************************************************)
EXTENDS Integers, Sequences, FiniteSets, TLC

(* ------------------------------------------------------------------ *)
(* Bounds.  The two tunables of the source are scaled down: 64 MB and   *)
(* 16 children in oom_alloc.c:39-40.                                    *)
(* ------------------------------------------------------------------ *)
ALLOC_MB == 2
NUM_CHLD == 2
MaxArgs == 2
MaxLines == 2

(* Bytes per "MB" in the model (1024*1024 in the source) and sizeof(int). *)
MB == 8
SizeofInt == 4

EXIT_SUCCESS == 0
EXIT_FAILURE == 1
(* Exit status of a process killed by SIGSEGV, as the shell reports it.  *)
SIGSEGV_STATUS == 139

memstr == "Committed_AS:"

(* Command-line tokens and /proc/meminfo keys the environment may supply. *)
Tokens == {"--shared", "--private", "--bogus"}
Keys == {"MemTotal:", memstr}

SeqsUpTo(S, n) == UNION {[1..k -> S] : k \in 0..n}

Parent == 0
Children == 1..NUM_CHLD
Procs == {Parent} \cup Children

\* const size_t length = ALLOC_MB * (1024 * 1024)
length == ALLOC_MB * MB
\* length / sizeof *p
NumSlots == length \div SizeofInt
Slots == 0..(NumSlots - 1)

VARIABLES
    args,      \* argv[1..]: the arguments after the program name
    tty,       \* stdout is a terminal (line-buffered) or not (fully buffered)
    meminfo,   \* the keys of the lines of /proc/meminfo
    pc,        \* the parent's position in main()/print_mem_commit()
    cp,        \* checkpoint number of the current/last print_mem_commit call
    ln,        \* lines of meminfo already read by fgets in the current call
    shared,    \* int shared: -1 = not assigned yet
    i,         \* int i
    status,    \* the parent's exit status, -1 while it runs
    fp,        \* FILE *fp is open
    mapped,    \* the region is mapped in the parent
    flags,     \* sharing flag the region was mapped with
    prot,      \* the region's protection
    mem,       \* the region's contents, by slot
    cview,     \* per child: the protection and contents it inherited at fork
    chld,      \* per child: "none", "created", "sleeping", "exited", "reaped"
    obuf,      \* per process: lines held in its stdio buffer of stdout
    stream,    \* lines that reached standard output, with the writing process
    errs,      \* lines that reached standard error (unbuffered)
    writes,    \* history: stores into the region
    calls,     \* history: the parent's OS calls and whether they succeeded
    steps,     \* history: the steps of main() the parent has started
    fin        \* history: how many of the started steps have finished

vars == <<args, tty, meminfo, pc, cp, ln, shared, i, status, fp, mapped, flags,
          prot, mem, cview, chld, obuf, stream, errs, writes, calls, steps, fin>>

envVars == <<args, tty, meminfo>>
regionVars == <<mapped, flags, prot, mem>>

(* ------------------------------------------------------------------ *)
(* Output lines.                                                        *)
(* ------------------------------------------------------------------ *)
Line(kind, text, a, b) == [kind |-> kind, text |-> text, a |-> a, b |-> b]

(* fprintf(stdout, "Test dnsmasq OOM: memory allocation and forking\n") *)
TitleLine == Line("title", "", 0, 0)

\* ModeWord with the two words the wrong way round
ModeWord_Swapped(sh) == IF sh # 0 THEN "private" ELSE "shared"

\* shared ? "shared" : "private"
ModeWord(sh) == IF sh # 0 THEN "shared" ELSE "private"

(* "(allocate %u MB %s anonymous, fork %u processes)\n" *)
ConfigLine(sh) == Line("config", ModeWord(sh), ALLOC_MB, NUM_CHLD)

(* "%s    (%s)\n": line number n of meminfo, echoed with the label msg *)
CommitLine(n, msg) == Line("commit", msg, n, 0)

(* "%s [ --shared | --private ]\n" on stderr *)
UsageLine == Line("usage", "", 0, 0)

(* perror(msg) *)
PerrorLine(msg) == Line("perror", msg, 0, 0)

\* Label with a label copied from the call site above it
Label_Repeated(c) ==
    CASE c = 1 -> "initial state"
      [] c = 2 -> "parent mem allocated"
      [] c = 3 -> "parent mem allocated"
      [] c = 4 -> "parent mem set-readonly"
      [] c = 5 -> "parent forked children"
      [] c = 6 -> "parent reaped children"
      [] c = 7 -> "parent mem unmapped"

(* The label passed to the cp-th call of print_mem_commit. *)
Label(c) ==
    CASE c = 1 -> "initial state"
      [] c = 2 -> "parent mem allocated"
      [] c = 3 -> "parent mem initialized"
      [] c = 4 -> "parent mem set-readonly"
      [] c = 5 -> "parent forked children"
      [] c = 6 -> "parent reaped children"
      [] c = 7 -> "parent mem unmapped"

\* AfterReport with the region protected before it is initialized
AfterReport_ProtectFirst(c) ==
    CASE c = 1 -> "mmap"
      [] c = 2 -> "mprotect"
      [] c = 3 -> "mprotect"
      [] c = 4 -> "fork0"
      [] c = 5 -> "wait0"
      [] c = 6 -> "munmap"
      [] c = 7 -> "exit"

\* AfterReport with the region released right after the fan-out
AfterReport_UnmapEarly(c) ==
    CASE c = 1 -> "mmap"
      [] c = 2 -> "init0"
      [] c = 3 -> "mprotect"
      [] c = 4 -> "fork0"
      [] c = 5 -> "munmap"
      [] c = 6 -> "munmap"
      [] c = 7 -> "exit"

(* The statement of main() that follows the cp-th call. *)
AfterReport(c) ==
    CASE c = 1 -> "mmap"
      [] c = 2 -> "init0"
      [] c = 3 -> "mprotect"
      [] c = 4 -> "fork0"
      [] c = 5 -> "wait0"
      [] c = 6 -> "munmap"
      [] c = 7 -> "exit"

NumCheckpoints == 7

(* ------------------------------------------------------------------ *)
(* stdio.                                                               *)
(* ------------------------------------------------------------------ *)
Tag(p, s) == [k \in 1..Len(s) |-> [by |-> p, line |-> s[k]]]

(* fprintf(stdout, ...) of one '\n'-terminated line l by the parent, on  *)
(* buffer b and stream s: a line-buffered stream writes the line out at  *)
(* once, a fully buffered one keeps it (the whole output of a run is far *)
(* smaller than the buffer).                                             *)
BufAfter(b, l) == IF tty THEN b ELSE [b EXCEPT ![Parent] = Append(@, l)]
StreamAfter(s, l) == IF tty THEN Append(s, [by |-> Parent, line |-> l]) ELSE s

(* exit() flushes the calling process's buffer. *)
FlushedStream(p) == stream \o Tag(p, obuf[p])
FlushedBuf(p) == [obuf EXCEPT ![p] = <<>>]

(* ------------------------------------------------------------------ *)
(* Initial state.                                                       *)
(* ------------------------------------------------------------------ *)
Init ==
    /\ args \in SeqsUpTo(Tokens, MaxArgs)
    /\ tty \in BOOLEAN
    /\ meminfo \in SeqsUpTo(Keys, MaxLines)
    /\ pc = "main"
    /\ cp = 0
    /\ ln = 0
    /\ shared = -1
    /\ i = 0
    /\ status = -1
    /\ fp = FALSE
    /\ mapped = FALSE
    /\ flags = "none"
    /\ prot = "none"
    /\ mem = <<>>
    /\ cview = [c \in Children |-> [prot |-> "none", mem |-> <<>>]]
    /\ chld = [c \in Children |-> "none"]
    /\ obuf = [p \in Procs |-> <<>>]
    /\ stream = <<>>
    /\ errs = <<>>
    /\ writes = <<>>
    /\ calls = <<>>
    /\ steps = <<>>
    /\ fin = 0

(* ------------------------------------------------------------------ *)
(* Helpers of main().                                                   *)
(* ------------------------------------------------------------------ *)
\* argc counts the program name
argc == Len(args) + 1

\* ParseMode without the test of argc
ParseMode_FirstArgOnly(a) ==
    IF Len(a) = 0 THEN -1
    ELSE IF a[1] = "--shared" THEN 1
    ELSE IF a[1] = "--private" THEN 0
    ELSE -1

\* oom_alloc.c:76-84: 1 or 0 for int shared, -1 where usage() is called
ParseMode(a) ==
    IF Len(a) + 1 # 2 THEN -1
    ELSE IF a[1] = "--shared" THEN 1
    ELSE IF a[1] = "--private" THEN 0
    ELSE -1

\* MapFlag that asks for a private mapping whatever the mode
MapFlag_AlwaysPrivate(sh) == "MAP_PRIVATE"

\* MAP_ANONYMOUS | (shared ? MAP_SHARED : MAP_PRIVATE)
MapFlag(sh) == IF sh # 0 THEN "MAP_SHARED" ELSE "MAP_PRIVATE"

\* *p = i
InitValue(k) == k

\* mprotect() asked to keep the region writable
ProtAfterMprotect_Writable == "rw"

\* the protection mprotect() is asked for
ProtAfterMprotect == "ro"

\* the loop bounds with the division by sizeof forgotten, and off by one
InitBound_Bytes == length
ForkBound_Short == NUM_CHLD - 1
WaitBound_Short == NUM_CHLD - 1

\* the bounds of the three loops of main()
InitBound == NumSlots
ForkBound == NUM_CHLD
WaitBound == NUM_CHLD

\* a call record: the operation, whether it succeeded, the pid it returned
\* (fork, wait) or 0
Call(op, ok, pid) == [op |-> op, ok |-> ok, pid |-> pid]

\* the end of the parent process: its address space is gone
Teardown ==
    /\ mapped' = FALSE
    /\ prot' = "none"
    /\ mem' = <<>>
    /\ UNCHANGED flags

\* exit(code) by the parent: the buffer of stdout is flushed
ParentExit(code) ==
    /\ stream' = FlushedStream(Parent)
    /\ obuf' = FlushedBuf(Parent)
    /\ status' = code
    /\ pc' = "done"
    /\ Teardown

\* handle_error that reports and goes on
handle_error_NoExit(msg) ==
    /\ errs' = Append(errs, [by |-> Parent, line |-> PerrorLine(msg)])
    /\ UNCHANGED <<stream, obuf, status, pc, regionVars>>

\* handle_error(msg): perror(msg); exit(EXIT_FAILURE)
handle_error(msg) ==
    /\ errs' = Append(errs, [by |-> Parent, line |-> PerrorLine(msg)])
    /\ ParentExit(EXIT_FAILURE)

\* usage(argv)
usage ==
    /\ errs' = Append(errs, [by |-> Parent, line |-> UsageLine])
    /\ ParentExit(EXIT_FAILURE)

\* the call print_mem_commit(Label(c))
CallReport(c) ==
    /\ pc' = "pmc_fopen"
    /\ cp' = c

(* ------------------------------------------------------------------ *)
(* main(), oom_alloc.c:76-90: arguments and banner.                     *)
(* ------------------------------------------------------------------ *)
Main ==
    /\ pc = "main"
    /\ steps' = Append(steps, "resolve args")
    /\ IF ParseMode(args) = -1
       THEN /\ usage
            /\ UNCHANGED <<shared, fin>>
       ELSE /\ shared' = ParseMode(args)
            /\ pc' = "banner"
            /\ fin' = fin + 1
            /\ UNCHANGED <<stream, obuf, status, errs, regionVars>>
    /\ UNCHANGED <<envVars, cp, ln, i, fp, cview, chld, writes, calls>>

Banner ==
    /\ pc = "banner"
    /\ obuf' = BufAfter(BufAfter(obuf, TitleLine), ConfigLine(shared))
    /\ stream' = StreamAfter(StreamAfter(stream, TitleLine), ConfigLine(shared))
    /\ CallReport(1)
    /\ UNCHANGED <<envVars, ln, shared, i, status, fp, regionVars, cview, chld,
                   errs, writes, calls, steps, fin>>

(* ------------------------------------------------------------------ *)
(* print_mem_commit(), oom_alloc.c:42-57.                               *)
(* ------------------------------------------------------------------ *)
pmc_fopen ==
    /\ pc = "pmc_fopen"
    /\ steps' = Append(steps, "report")
    /\ \E ok \in BOOLEAN :
        /\ calls' = Append(calls, Call("fopen", ok, 0))
        /\ IF ok
           THEN /\ fp' = TRUE
                /\ ln' = 0
                /\ pc' = "pmc_fgets"
                /\ UNCHANGED <<stream, obuf, status, errs, regionVars>>
           ELSE /\ handle_error("file open")
                /\ UNCHANGED <<fp, ln>>
    /\ UNCHANGED <<envVars, cp, shared, i, cview, chld, writes, fin>>

\* pmc_fgets_line that returns to main() as soon as it has echoed the
\* metric, without closing the file
pmc_fgets_line_ReturnOnMatch ==
    /\ pc = "pmc_fgets"
    /\ ln < Len(meminfo)
    /\ ln' = ln + 1
    /\ IF meminfo[ln + 1] = memstr
       THEN /\ obuf' = BufAfter(obuf, CommitLine(ln + 1, Label(cp)))
            /\ stream' = StreamAfter(stream, CommitLine(ln + 1, Label(cp)))
            /\ pc' = AfterReport(cp)
            /\ fin' = fin + 1
       ELSE UNCHANGED <<obuf, stream, pc, fin>>
    /\ UNCHANGED <<envVars, cp, shared, i, status, fp, regionVars, cview, chld,
                   errs, writes, calls, steps>>

\* pmc_fgets_line that stops reading after the first line it echoes
pmc_fgets_line_FirstOnly ==
    /\ pc = "pmc_fgets"
    /\ ln < Len(meminfo)
    /\ ln' = ln + 1
    /\ IF meminfo[ln + 1] = memstr
       THEN /\ obuf' = BufAfter(obuf, CommitLine(ln + 1, Label(cp)))
            /\ stream' = StreamAfter(stream, CommitLine(ln + 1, Label(cp)))
            /\ pc' = "pmc_fclose"
       ELSE UNCHANGED <<obuf, stream, pc>>
    /\ UNCHANGED <<envVars, cp, shared, i, status, fp, regionVars, cview, chld,
                   errs, writes, calls, steps, fin>>

\* fgets returns the next line; it is echoed when it starts with memstr
pmc_fgets_line ==
    /\ pc = "pmc_fgets"
    /\ ln < Len(meminfo)
    /\ ln' = ln + 1
    /\ IF meminfo[ln + 1] = memstr
       THEN /\ obuf' = BufAfter(obuf, CommitLine(ln + 1, Label(cp)))
            /\ stream' = StreamAfter(stream, CommitLine(ln + 1, Label(cp)))
       ELSE UNCHANGED <<obuf, stream>>
    /\ UNCHANGED <<envVars, pc, cp, shared, i, status, fp, regionVars, cview, chld,
                   errs, writes, calls, steps, fin>>

\* pmc_fgets_eof treating a source without the metric as an error
pmc_fgets_eof_MissingIsFatal ==
    /\ pc = "pmc_fgets"
    /\ ln >= Len(meminfo)
    /\ IF \E k \in 1..Len(meminfo) : meminfo[k] = memstr
       THEN /\ pc' = "pmc_fclose"
            /\ UNCHANGED <<status, obuf, stream, errs, regionVars>>
       ELSE handle_error("no metric")
    /\ UNCHANGED <<envVars, cp, ln, shared, i, fp, cview, chld, writes, calls,
                   steps, fin>>

\* fgets returns NULL at end of file
pmc_fgets_eof ==
    /\ pc = "pmc_fgets"
    /\ ln >= Len(meminfo)
    /\ pc' = "pmc_fclose"
    /\ UNCHANGED <<envVars, cp, ln, shared, i, status, fp, regionVars, cview, chld,
                   obuf, stream, errs, writes, calls, steps, fin>>

\* fclose(fp) and the return to main()
pmc_fclose ==
    /\ pc = "pmc_fclose"
    /\ fp' = FALSE
    /\ calls' = Append(calls, Call("fclose", TRUE, 0))
    /\ pc' = AfterReport(cp)
    /\ fin' = fin + 1
    /\ UNCHANGED <<envVars, cp, ln, shared, i, status, regionVars, cview, chld,
                   obuf, stream, errs, writes, steps>>

(* ------------------------------------------------------------------ *)
(* main(), oom_alloc.c:92-104: allocate, initialize, protect.           *)
(* ------------------------------------------------------------------ *)
MMap ==
    /\ pc = "mmap"
    /\ steps' = Append(steps, "allocate")
    /\ \E ok \in BOOLEAN :
        /\ calls' = Append(calls, Call("mmap", ok, 0))
        /\ IF ok
           THEN /\ mapped' = TRUE
                /\ flags' = MapFlag(shared)
                /\ prot' = "rw"
                /\ mem' = [s \in Slots |-> 0]
                /\ fin' = fin + 1
                /\ CallReport(2)
                /\ UNCHANGED <<stream, obuf, status, errs>>
           ELSE /\ handle_error("mmap")
                /\ UNCHANGED <<fin, cp>>
    /\ UNCHANGED <<envVars, ln, shared, i, fp, cview, chld, writes>>

\* for (p = addr, i = 0; ...
Init0 ==
    /\ pc = "init0"
    /\ steps' = Append(steps, "initialize")
    /\ i' = 0
    /\ pc' = "init"
    /\ UNCHANGED <<envVars, cp, ln, shared, status, fp, regionVars, cview, chld,
                   obuf, stream, errs, writes, calls, fin>>

\* i < length/sizeof *p: *p = i; p++, i++.  A store into a region that is
\* not writable kills the process with SIGSEGV (no exit(), so no flush).
InitWrite ==
    /\ pc = "init"
    /\ i < InitBound
    /\ writes' = Append(writes, [by |-> Parent, slot |-> i, prot |-> prot])
    /\ IF mapped /\ prot = "rw" /\ i \in Slots
       THEN /\ mem' = [mem EXCEPT ![i] = InitValue(i)]
            /\ i' = i + 1
            /\ UNCHANGED <<pc, status, mapped, flags, prot>>
       ELSE /\ pc' = "done"
            /\ status' = SIGSEGV_STATUS
            /\ Teardown
            /\ UNCHANGED i
    /\ UNCHANGED <<envVars, cp, ln, shared, fp, cview, chld,
                   obuf, stream, errs, calls, steps, fin>>

InitDone ==
    /\ pc = "init"
    /\ i >= InitBound
    /\ fin' = fin + 1
    /\ CallReport(3)
    /\ UNCHANGED <<envVars, ln, shared, i, status, fp, regionVars, cview, chld,
                   obuf, stream, errs, writes, calls, steps>>

MProtect ==
    /\ pc = "mprotect"
    /\ steps' = Append(steps, "protect")
    /\ \E ok \in BOOLEAN :
        /\ calls' = Append(calls, Call("mprotect", ok, 0))
        /\ IF ok
           THEN /\ prot' = ProtAfterMprotect
                /\ fin' = fin + 1
                /\ CallReport(4)
                /\ UNCHANGED <<stream, obuf, status, errs, mapped, flags, mem>>
           ELSE /\ handle_error("mprotect")
                /\ UNCHANGED <<fin, cp>>
    /\ UNCHANGED <<envVars, ln, shared, i, fp, cview, chld, writes>>

(* ------------------------------------------------------------------ *)
(* main(), oom_alloc.c:106-120: fork the children, reap them.           *)
(* ------------------------------------------------------------------ *)
Fork0 ==
    /\ pc = "fork0"
    /\ steps' = Append(steps, "fan out")
    /\ i' = 0
    /\ pc' = "fork"
    /\ UNCHANGED <<envVars, cp, ln, shared, status, fp, regionVars, cview, chld,
                   obuf, stream, errs, writes, calls, fin>>

\* fork() returns the child's pid in the parent: the child starts with a
\* copy of the parent's address space, its stdio buffer included
ForkOk ==
    /\ pc = "fork"
    /\ i < ForkBound
    /\ \E c \in Children :
        /\ chld[c] = "none"
        /\ \A d \in Children : d < c => chld[d] # "none"
        /\ chld' = [chld EXCEPT ![c] = "created"]
        /\ cview' = [cview EXCEPT ![c] = [prot |-> prot, mem |-> mem]]
        /\ obuf' = [obuf EXCEPT ![c] = obuf[Parent]]
        /\ calls' = Append(calls, Call("fork", TRUE, c))
    /\ i' = i + 1
    /\ UNCHANGED <<envVars, pc, cp, ln, shared, status, fp, regionVars, stream,
                   errs, writes, steps, fin>>

\* ForkFail that reports the failure and goes on with the loop
ForkFail_Continue ==
    /\ pc = "fork"
    /\ i < ForkBound
    /\ calls' = Append(calls, Call("fork", FALSE, 0))
    /\ errs' = Append(errs, [by |-> Parent, line |-> PerrorLine("fork")])
    /\ i' = i + 1
    /\ UNCHANGED <<envVars, pc, cp, ln, shared, status, fp, regionVars, cview, chld,
                   obuf, stream, writes, steps, fin>>

\* fork() returns -1
ForkFail ==
    /\ pc = "fork"
    /\ i < ForkBound
    /\ calls' = Append(calls, Call("fork", FALSE, 0))
    /\ handle_error("fork")
    /\ UNCHANGED <<envVars, cp, ln, shared, i, fp, cview, chld,
                   writes, steps, fin>>

ForkDone ==
    /\ pc = "fork"
    /\ i >= ForkBound
    /\ fin' = fin + 1
    /\ CallReport(5)
    /\ UNCHANGED <<envVars, ln, shared, i, status, fp, regionVars, cview, chld,
                   obuf, stream, errs, writes, calls, steps>>

\* the child: sleep(3)
ChildSleep(c) ==
    /\ chld[c] = "created"
    /\ chld' = [chld EXCEPT ![c] = "sleeping"]
    /\ UNCHANGED <<envVars, pc, cp, ln, shared, i, status, fp, regionVars, cview,
                   obuf, stream, errs, writes, calls, steps, fin>>

\* a child that blocks for ever instead of exiting
ChildExit_Hang(c) ==
    /\ chld[c] = "sleeping"
    /\ FALSE
    /\ UNCHANGED vars

\* the child: exit(EXIT_SUCCESS), which flushes its copy of the buffer
ChildExit(c) ==
    /\ chld[c] = "sleeping"
    /\ chld' = [chld EXCEPT ![c] = "exited"]
    /\ stream' = FlushedStream(c)
    /\ obuf' = FlushedBuf(c)
    /\ UNCHANGED <<envVars, pc, cp, ln, shared, i, status, fp, regionVars, cview,
                   errs, writes, calls, steps, fin>>

Wait0 ==
    /\ pc = "wait0"
    /\ steps' = Append(steps, "reap")
    /\ i' = 0
    /\ pc' = "wait"
    /\ UNCHANGED <<envVars, cp, ln, shared, status, fp, regionVars, cview, chld,
                   obuf, stream, errs, writes, calls, fin>>

\* WaitOk as a wait that does not block: with no terminated child it
\* returns at once and the loop counts it
WaitOk_NoHang ==
    /\ pc = "wait"
    /\ i < WaitBound
    /\ IF \E c \in Children : chld[c] = "exited"
       THEN \E c \in Children :
               /\ chld[c] = "exited"
               /\ chld' = [chld EXCEPT ![c] = "reaped"]
               /\ calls' = Append(calls, Call("wait", TRUE, c))
       ELSE /\ calls' = Append(calls, Call("wait", TRUE, 0))
            /\ UNCHANGED chld
    /\ i' = i + 1
    /\ UNCHANGED <<envVars, pc, cp, ln, shared, status, fp, regionVars, cview,
                   obuf, stream, errs, writes, steps, fin>>

\* wait() returns the pid of a terminated child, whichever it is
\* (the process starts with no children of its own, so these are the
\* children forked above); it blocks while none has terminated
WaitOk ==
    /\ pc = "wait"
    /\ i < WaitBound
    /\ \E c \in Children :
        /\ chld[c] = "exited"
        /\ chld' = [chld EXCEPT ![c] = "reaped"]
        /\ calls' = Append(calls, Call("wait", TRUE, c))
    /\ i' = i + 1
    /\ UNCHANGED <<envVars, pc, cp, ln, shared, status, fp, regionVars, cview,
                   obuf, stream, errs, writes, steps, fin>>

\* wait() returns -1 (ECHILD when no child is left to wait for, EINTR)
WaitFail ==
    /\ pc = "wait"
    /\ i < WaitBound
    /\ calls' = Append(calls, Call("wait", FALSE, 0))
    /\ handle_error("wait")
    /\ UNCHANGED <<envVars, cp, ln, shared, i, fp, cview, chld,
                   writes, steps, fin>>

WaitDone ==
    /\ pc = "wait"
    /\ i >= WaitBound
    /\ fin' = fin + 1
    /\ CallReport(6)
    /\ UNCHANGED <<envVars, ln, shared, i, status, fp, regionVars, cview, chld,
                   obuf, stream, errs, writes, calls, steps>>

(* ------------------------------------------------------------------ *)
(* main(), oom_alloc.c:122-125: release and exit.                       *)
(* ------------------------------------------------------------------ *)
\* munmap(addr, length); its result is not looked at
\* MUnmap with the result of munmap checked like every other call
MUnmap_Checked ==
    /\ pc = "munmap"
    /\ steps' = Append(steps, "release")
    /\ \E ok \in BOOLEAN :
        /\ calls' = Append(calls, Call("munmap", ok, 0))
        /\ IF ok
           THEN /\ mapped' = FALSE
                /\ prot' = "none"
                /\ mem' = <<>>
                /\ fin' = fin + 1
                /\ CallReport(7)
                /\ UNCHANGED <<stream, obuf, status, errs, flags>>
           ELSE /\ handle_error("munmap")
                /\ UNCHANGED <<fin, cp>>
    /\ UNCHANGED <<envVars, ln, shared, i, fp, cview, chld, writes>>

MUnmap ==
    /\ pc = "munmap"
    /\ steps' = Append(steps, "release")
    /\ \E ok \in BOOLEAN :
        /\ calls' = Append(calls, Call("munmap", ok, 0))
        /\ IF ok
           THEN /\ mapped' = FALSE
                /\ prot' = "none"
                /\ mem' = <<>>
           ELSE UNCHANGED <<mapped, prot, mem>>
    /\ fin' = fin + 1
    /\ CallReport(7)
    /\ UNCHANGED <<envVars, ln, shared, i, status, fp, flags, cview, chld,
                   obuf, stream, errs, writes>>

\* exit(EXIT_SUCCESS)
Exit ==
    /\ pc = "exit"
    /\ ParentExit(EXIT_SUCCESS)
    /\ UNCHANGED <<envVars, cp, ln, shared, i, fp, cview, chld,
                   errs, writes, calls, steps, fin>>

Next ==
    \/ Main
    \/ Banner
    \/ pmc_fopen
    \/ pmc_fgets_line
    \/ pmc_fgets_eof
    \/ pmc_fclose
    \/ MMap
    \/ Init0
    \/ InitWrite
    \/ InitDone
    \/ MProtect
    \/ Fork0
    \/ ForkOk
    \/ ForkFail
    \/ ForkDone
    \/ \E c \in Children : ChildSleep(c)
    \/ \E c \in Children : ChildExit(c)
    \/ Wait0
    \/ WaitOk
    \/ WaitFail
    \/ WaitDone
    \/ MUnmap
    \/ Exit

Spec == Init /\ [][Next]_vars

(* ------------------------------------------------------------------ *)
(* Scheduling.  The parent runs whenever it is not blocked in wait(),   *)
(* and so does every child; a call may fail but nothing makes it fail,  *)
(* except that wait() with no child left returns -1 (ECHILD) at once.   *)
(* ------------------------------------------------------------------ *)
ParentStep ==
    \/ Main \/ Banner
    \/ pmc_fopen \/ pmc_fgets_line \/ pmc_fgets_eof \/ pmc_fclose
    \/ MMap \/ Init0 \/ InitWrite \/ InitDone \/ MProtect
    \/ Fork0 \/ ForkOk \/ ForkDone
    \/ Wait0 \/ WaitOk \/ WaitDone
    \/ MUnmap \/ Exit

WaitNoChild ==
    /\ \A c \in Children : chld[c] \in {"none", "reaped"}
    /\ WaitFail

FairSpec ==
    /\ Spec
    /\ WF_vars(ParentStep)
    /\ WF_vars(WaitNoChild)
    /\ \A c \in Children : WF_vars(ChildSleep(c)) /\ WF_vars(ChildExit(c))

(* ================================================================== *)
(* Properties.                                                          *)
(* ================================================================== *)
IsPrefix(a, b) == Len(a) <= Len(b) /\ \A k \in 1..Len(a) : a[k] = b[k]

\* the lines of a tagged stream
LinesOf(s) == [k \in 1..Len(s) |-> s[k].line]
IsBy(p, e) == e.by = p
IsParentEntry(e) == IsBy(Parent, e)
IsKindTitle(l) == l.kind = "title"
IsKindConfig(l) == l.kind = "config"
IsKindCommit(l) == l.kind = "commit"
IsKindBanner(l) == l.kind \in {"title", "config"}

\* everything on standard output so far
Output == LinesOf(stream)
\* everything the parent has passed to fprintf(stdout, ...) so far
ParentPrinted == LinesOf(SelectSeq(stream, IsParentEntry)) \o obuf[Parent]

\* the argument list is exactly one of the two recognised flags
ValidArgs == Len(args) = 1 /\ args[1] \in {"--shared", "--private"}
\* the mode word that goes with the argument
ArgWord == IF args[1] = "--shared" THEN "shared" ELSE "private"

\* the lines of the accounting source that carry the metric
MetricLines == {k \in 1..Len(meminfo) : meminfo[k] = memstr}
MetricOnce == Cardinality(MetricLines) = 1
TheMetricLine == CHOOSE k \in MetricLines : TRUE

CallFailed(k) == ~calls[k].ok
NoCallFailed == \A k \in 1..Len(calls) : calls[k].ok
IsOkFork(c) == c.op = "fork" /\ c.ok
IsOkWait(c) == c.op = "wait" /\ c.ok
IsMunmap(c) == c.op = "munmap"

\* the parent and every child it created have finished
AllFinished == pc = "done" /\ \A c \in Children : chld[c] \in {"none", "exited", "reaped"}

(* ------------------------------------------------------------------ *)
(* C1: an argument list that is not exactly one of --shared/--private   *)
(* makes the program print the usage line on the error stream and exit  *)
(* non-zero; such a run never prints a banner or memory-commit line,    *)
(* never maps the region and never creates a child.                     *)
(* ------------------------------------------------------------------ *)
C1_UsageError ==
    ~ValidArgs =>
        /\ pc \in {"main", "done"}
        /\ pc = "done" =>
              /\ status # -1 /\ status # EXIT_SUCCESS
              /\ errs = <<[by |-> Parent, line |-> UsageLine]>>
        /\ Output = <<>>
        /\ ParentPrinted = <<>>
        /\ ~mapped
        /\ calls = <<>>
        /\ \A c \in Children : chld[c] = "none"

\* two arguments, the first of them a recognised flag
C1_Witness ==
    /\ Len(args) = 2
    /\ args[1] = "--shared"
    /\ pc = "done"
    /\ errs # <<>>

(* ------------------------------------------------------------------ *)
(* C2: with --shared or --private, no failing OS call and the metric    *)
(* present (once) in the accounting source, standard output carries     *)
(* exactly one banner (configured size, mode word of the argument,      *)
(* configured child count), then exactly one memory-commit line per     *)
(* checkpoint, and the program exits with status 0.                     *)
(* ------------------------------------------------------------------ *)
ExpectedOutput ==
    <<TitleLine, Line("config", ArgWord, ALLOC_MB, NUM_CHLD)>>
    \o [c \in 1..NumCheckpoints |-> CommitLine(TheMetricLine, Label(c))]

C2_OneBannerOneLinePerCheckpoint ==
    (ValidArgs /\ MetricOnce /\ NoCallFailed) =>
        /\ Len(SelectSeq(Output, IsKindTitle)) <= 1
        /\ Len(SelectSeq(Output, IsKindConfig)) <= 1
        /\ IsPrefix(Output, ExpectedOutput)
        /\ AllFinished => (status = EXIT_SUCCESS /\ Output = ExpectedOutput)

\* the same statement for a standard output that is a terminal
C2_HoldsOnTerminal == tty => C2_OneBannerOneLinePerCheckpoint

(* ------------------------------------------------------------------ *)
(* C3 (as claimed): a fully successful run with the metric present once *)
(* prints exactly 8 "Committed_AS:" lines.                              *)
(* ------------------------------------------------------------------ *)
C3_EightLines ==
    (ValidArgs /\ MetricOnce /\ pc = "done" /\ status = EXIT_SUCCESS) =>
        Len(SelectSeq(ParentPrinted, IsKindCommit)) = 8

(* ------------------------------------------------------------------ *)
(* C3 (amended): in a fully successful run with the metric present      *)
(* once the parent prints exactly 7 "Committed_AS:" lines, the k-th of  *)
(* them tagged with the k-th of the seven labels; while the run is      *)
(* under way the lines printed so far are the first ones of these; on a *)
(* line-buffered standard output they are the only such lines.          *)
(* ------------------------------------------------------------------ *)
SevenLines == [c \in 1..7 |-> CommitLine(TheMetricLine,
    <<"initial state", "parent mem allocated", "parent mem initialized",
      "parent mem set-readonly", "parent forked children",
      "parent reaped children", "parent mem unmapped">>[c])]

C3_SevenLines ==
    (ValidArgs /\ MetricOnce) =>
        /\ IsPrefix(SelectSeq(ParentPrinted, IsKindCommit), SevenLines)
        /\ (pc = "done" /\ status = EXIT_SUCCESS) =>
              /\ SelectSeq(ParentPrinted, IsKindCommit) = SevenLines
              /\ tty => SelectSeq(Output, IsKindCommit) = SevenLines

C3_Witness ==
    /\ ValidArgs /\ MetricOnce
    /\ pc = "done" /\ status = EXIT_SUCCESS
    /\ Len(SelectSeq(ParentPrinted, IsKindCommit)) = 7

(* ------------------------------------------------------------------ *)
(* C4: the parent's steps occur in one fixed order (resolve args,       *)
(* report, allocate, report, initialize, report, protect, report, fan   *)
(* out, report, reap, report, release, report): the steps started so    *)
(* far are always a prefix of that sequence, at most the last of them   *)
(* is unfinished, and a successful run has started and finished all.    *)
(* ------------------------------------------------------------------ *)
Order ==
    <<"resolve args", "report", "allocate", "report", "initialize", "report",
      "protect", "report", "fan out", "report", "reap", "report",
      "release", "report">>

C4_LinearOrder ==
    /\ IsPrefix(steps, Order)
    /\ fin \in {Len(steps) - 1, Len(steps)}
    /\ fin >= 0
    /\ (pc = "done" /\ status = EXIT_SUCCESS) => (steps = Order /\ fin = Len(Order))
    /\ (pc = "done" /\ status # EXIT_SUCCESS) => fin = Len(steps) - 1

C4_Witness ==
    /\ pc = "done" /\ status = EXIT_SUCCESS
    /\ steps = Order

(* ------------------------------------------------------------------ *)
(* C5: when the initialization step has finished, slot k of the region  *)
(* holds k for every k < length / slot size; the stores were made once  *)
(* per slot, in increasing address order, and none outside the region.  *)
(* ------------------------------------------------------------------ *)
FilledRegion == [k \in 0..((ALLOC_MB * MB) \div SizeofInt - 1) |-> k]
ExpectedWrites ==
    [n \in 1..((ALLOC_MB * MB) \div SizeofInt) |->
        [by |-> Parent, slot |-> n - 1, prot |-> "rw"]]
InitFinished == cp >= 3

C5_RegionInitialized ==
    /\ IsPrefix(writes, ExpectedWrites)
    /\ InitFinished => writes = ExpectedWrites
    /\ (InitFinished /\ mapped) => mem = FilledRegion

C5_Witness ==
    /\ cp = 3 /\ pc = "pmc_fopen"
    /\ prot = "rw"
    /\ mem = FilledRegion
    /\ Len(writes) > 1

(* ------------------------------------------------------------------ *)
(* C6: the region is stored into only by the parent and only while it   *)
(* is read-write; once the protection downgrade has succeeded no        *)
(* process stores into it; every child is created after the downgrade   *)
(* and inherits the region read-only and fully initialized.             *)
(* ------------------------------------------------------------------ *)
Downgraded == \E k \in 1..Len(calls) : calls[k].op = "mprotect" /\ calls[k].ok

C6_State ==
    /\ \A k \in 1..Len(writes) : writes[k].by = Parent /\ writes[k].prot = "rw"
    /\ Downgraded /\ mapped => prot = "ro"
    /\ \A c \in Children : chld[c] # "none" =>
          /\ Downgraded
          /\ cview[c].prot = "ro"
          /\ cview[c].mem = FilledRegion

C6_ReadOnlyAfterDowngrade ==
    /\ []C6_State
    /\ [][Downgraded => (writes' = writes /\ (mapped' => mem' = mem))]_vars

C6_Witness ==
    \E c \in Children :
        /\ chld[c] = "sleeping"
        /\ cview[c].prot = "ro"
        /\ pc = "wait"

(* ------------------------------------------------------------------ *)
(* C7: when the parent reaches the "parent reaped children" checkpoint  *)
(* it has reaped exactly NUM_CHLD terminations, one per child it        *)
(* created: no child is reaped twice, only created children are         *)
(* reaped, and none is then still running or waiting to be reaped,      *)
(* whatever the order in which wait() returned them.                    *)
(* ------------------------------------------------------------------ *)
OkForks == SelectSeq(calls, IsOkFork)
OkWaits == SelectSeq(calls, IsOkWait)
Pids(q) == {q[k].pid : k \in 1..Len(q)}

C7_ReapedAllAtCheckpoint ==
    /\ Cardinality(Pids(OkWaits)) = Len(OkWaits)
    /\ Pids(OkWaits) \subseteq Pids(OkForks)
    /\ cp >= 6 =>
          /\ Len(OkWaits) = NUM_CHLD
          /\ Len(OkForks) = NUM_CHLD
          /\ Pids(OkWaits) = Pids(OkForks)
          /\ \A c \in Children : chld[c] = "reaped"

\* reached with the children returned in another order than created
C7_Witness ==
    /\ cp = 6 /\ pc = "pmc_fopen"
    /\ OkWaits[1].pid # OkForks[1].pid

(* ------------------------------------------------------------------ *)
(* C8: the parent calls munmap at most once, exactly once in a          *)
(* successful run, and only after NUM_CHLD children were reaped: while  *)
(* the parent runs and a created child is not yet reaped, the region    *)
(* is still mapped and no munmap has been issued.                       *)
(* ------------------------------------------------------------------ *)
Unreaped == {c \in Children : chld[c] \in {"created", "sleeping", "exited"}}

C8_UnmapOnceAfterReap ==
    /\ Len(SelectSeq(calls, IsMunmap)) <= 1
    /\ \A k \in 1..Len(calls) : calls[k].op = "munmap" =>
          Len(SelectSeq(SubSeq(calls, 1, k - 1), IsOkWait)) = NUM_CHLD
    /\ Unreaped # {} =>
          /\ Len(SelectSeq(calls, IsMunmap)) = 0
          /\ pc # "done" => mapped
    /\ (pc = "done" /\ status = EXIT_SUCCESS) => Len(SelectSeq(calls, IsMunmap)) = 1

C8_Witness ==
    /\ pc = "pmc_fopen" /\ cp = 7
    /\ ~mapped
    /\ Len(SelectSeq(calls, IsMunmap)) = 1

(* ------------------------------------------------------------------ *)
(* C9: every fork precedes every wait: the parent never issues a fork   *)
(* after a wait, and issues a wait only when NUM_CHLD children have     *)
(* been created; a failed fork is followed by no wait at all.           *)
(* ------------------------------------------------------------------ *)
CallIdx(op) == {k \in 1..Len(calls) : calls[k].op = op}

C9_ForksBeforeWaits ==
    LET F == CallIdx("fork")
        W == CallIdx("wait")
    IN  /\ \A w \in W : \A f \in F : f < w
        /\ W # {} => Cardinality({f \in F : calls[f].ok}) = NUM_CHLD
        /\ (\E f \in F : ~calls[f].ok) => W = {}

C9_Witness ==
    /\ Len(OkWaits) >= 2
    /\ pc = "wait"

(* ------------------------------------------------------------------ *)
(* C10: a failure of fopen, mmap, mprotect, fork or wait is fatal: it   *)
(* is the parent's last OS call, the parent has reported it with        *)
(* perror and terminated with a non-zero status, the step it occurred   *)
(* in is left unfinished; and once terminated the parent starts no      *)
(* step, makes no call and prints no line.                              *)
(* ------------------------------------------------------------------ *)
FatalOps == {"fopen", "mmap", "mprotect", "fork", "wait"}
PerrorMsg(op) == IF op = "fopen" THEN "file open" ELSE op

C10_State ==
    \A k \in 1..Len(calls) : (calls[k].op \in FatalOps /\ ~calls[k].ok) =>
        /\ k = Len(calls)
        /\ pc = "done"
        /\ status # -1 /\ status # EXIT_SUCCESS
        /\ errs = <<[by |-> Parent, line |-> PerrorLine(PerrorMsg(calls[k].op))]>>
        /\ fin = Len(steps) - 1

C10_FatalErrors ==
    /\ []C10_State
    /\ [][pc = "done" =>
            /\ UNCHANGED <<pc, status, steps, fin, calls, errs>>
            /\ ParentPrinted' = ParentPrinted]_vars

\* a wait that fails after another one succeeded
C10_Witness ==
    /\ Len(calls) > 0
    /\ calls[Len(calls)].op = "wait" /\ ~calls[Len(calls)].ok
    /\ Len(OkWaits) >= 1
    /\ pc = "done"

(* ------------------------------------------------------------------ *)
(* C11: when the accounting source can be opened but has no line with   *)
(* the metric key, a reporter call prints nothing and returns; the run  *)
(* is not aborted by it: it ends in failure only if an OS call failed,  *)
(* and otherwise runs every step in order and exits with status 0.      *)
(* ------------------------------------------------------------------ *)
FatalCallFailed == \E k \in 1..Len(calls) : calls[k].op \in {"fopen", "mmap", "mprotect", "fork", "wait"} /\ ~calls[k].ok

C11_MissingMetricTolerated ==
    (ValidArgs /\ MetricLines = {}) =>
        /\ SelectSeq(ParentPrinted, IsKindCommit) = <<>>
        /\ SelectSeq(Output, IsKindCommit) = <<>>
        /\ IsPrefix(steps, Order)
        /\ (pc = "done" /\ ~FatalCallFailed) =>
              /\ status = EXIT_SUCCESS
              /\ steps = Order
              /\ fin = Len(Order)
              /\ errs = <<>>

\* a source with lines, none of them the metric, read seven times
C11_Witness ==
    /\ ValidArgs /\ MetricLines = {} /\ Len(meminfo) >= 1
    /\ pc = "done" /\ status = EXIT_SUCCESS
    /\ Cardinality({k \in 1..Len(calls) : calls[k].op = "fclose"}) = 7

(* ------------------------------------------------------------------ *)
(* Committed-memory accounting of the region, by the stated rule: a     *)
(* shared mapping counts once however many processes hold it, a private *)
(* mapping counts once per process holding it.  A child holds the       *)
(* mapping it inherited at fork until it exits.                         *)
(* ------------------------------------------------------------------ *)
LiveChildren == {c \in Children : chld[c] \in {"created", "sleeping"}}
Holders ==
    (IF mapped THEN {Parent} ELSE {})
    \cup {c \in LiveChildren : cview[c].prot # "none"}

RegionCommitted ==
    IF flags = "MAP_SHARED"
    THEN IF Holders = {} THEN 0 ELSE length
    ELSE length * Cardinality(Holders)

InReport == pc \in {"pmc_fopen", "pmc_fgets", "pmc_fclose"}
MunmapOk == \E k \in 1..Len(calls) : calls[k].op = "munmap" /\ calls[k].ok

(* ------------------------------------------------------------------ *)
(* C12 (as claimed): with --shared the region never accounts for more   *)
(* than one region size; with --private it accounts for region size     *)
(* times (1 + children still holding it) at the "parent forked          *)
(* children" checkpoint; at the "parent mem unmapped" checkpoint it     *)
(* accounts for nothing, in both modes.                                 *)
(* ------------------------------------------------------------------ *)
C12_AccountingAsClaimed ==
    ValidArgs =>
        /\ args[1] = "--shared" => RegionCommitted <= ALLOC_MB * MB
        /\ (args[1] = "--private" /\ InReport /\ cp = 5) =>
              RegionCommitted = (ALLOC_MB * MB) * (1 + Cardinality(LiveChildren))
        /\ (InReport /\ cp = 7) => RegionCommitted = 0

(* ------------------------------------------------------------------ *)
(* C12 (amended): as above, except that at the "parent mem unmapped"    *)
(* checkpoint the region accounts for nothing when the munmap call      *)
(* succeeded, and for one region size, still held by the parent, when   *)
(* it was rejected.                                                     *)
(* ------------------------------------------------------------------ *)
C12_Accounting ==
    ValidArgs =>
        /\ args[1] = "--shared" => RegionCommitted <= ALLOC_MB * MB
        /\ (args[1] = "--private" /\ InReport /\ cp = 5) =>
              RegionCommitted = (ALLOC_MB * MB) * (1 + Cardinality(LiveChildren))
        /\ (InReport /\ cp = 7) =>
              RegionCommitted = IF MunmapOk THEN 0 ELSE ALLOC_MB * MB

\* private mode, fan-out checkpoint, every child still holding its copy
C12_Witness ==
    /\ ValidArgs /\ args[1] = "--private"
    /\ InReport /\ cp = 5
    /\ Cardinality(LiveChildren) = NUM_CHLD
    /\ RegionCommitted = (ALLOC_MB * MB) * (1 + NUM_CHLD)

(* ------------------------------------------------------------------ *)
(* C13: the sharing mode is decided once from the argument and never    *)
(* changes: int shared, once assigned, keeps its value; the region is   *)
(* mapped MAP_SHARED exactly when the argument was --shared and         *)
(* MAP_PRIVATE exactly when it was --private; the mode word of the      *)
(* banner names the mode of the flag used for the mapping.              *)
(* ------------------------------------------------------------------ *)
FlagWord(f) == IF f = "MAP_SHARED" THEN "shared" ELSE "private"
ConfigLinesPrinted == SelectSeq(ParentPrinted, IsKindConfig)

C13_State ==
    /\ shared # -1 => (ValidArgs /\ (shared = 1 <=> args[1] = "--shared")
                                 /\ (shared = 0 <=> args[1] = "--private"))
    /\ flags # "none" =>
          /\ flags = "MAP_SHARED" <=> args[1] = "--shared"
          /\ flags = "MAP_PRIVATE" <=> args[1] = "--private"
          /\ Len(ConfigLinesPrinted) = 1
          /\ ConfigLinesPrinted[1].text = FlagWord(flags)
    /\ \A k \in 1..Len(ConfigLinesPrinted) : ConfigLinesPrinted[k].text = ArgWord

C13_ModeFixed ==
    /\ []C13_State
    /\ [][(shared # -1 => shared' = shared) /\ (flags # "none" => flags' = flags)]_vars

C13_Witness ==
    /\ flags = "MAP_PRIVATE"
    /\ shared = 0
    /\ Len(ConfigLinesPrinted) = 1
    /\ ConfigLinesPrinted[1].text = "private"

(* ------------------------------------------------------------------ *)
(* C14: each child only moves forward through Created, Sleeping,        *)
(* Exited, Reaped, one stage at a time, so it is reaped only after it   *)
(* has exited; the reap step is finished only when every child has      *)
(* exited, whatever the order and timing of the exits.                  *)
(* ------------------------------------------------------------------ *)
Stage(s) ==
    CASE s = "none" -> 0
      [] s = "created" -> 1
      [] s = "sleeping" -> 2
      [] s = "exited" -> 3
      [] s = "reaped" -> 4

ReapFinished == cp >= 6

C14_ChildLifecycle ==
    /\ [][\A c \in Children :
            \/ chld'[c] = chld[c]
            \/ Stage(chld'[c]) = Stage(chld[c]) + 1]_vars
    /\ [](ReapFinished => \A c \in Children : Stage(chld[c]) >= 3)
    /\ [](pc = "wait" => i = Cardinality({c \in Children : chld[c] = "reaped"}))

\* the parent has reaped all but the slowest child, which still sleeps
C14_Witness ==
    /\ pc = "wait"
    /\ i = NUM_CHLD - 1
    /\ \E c \in Children : chld[c] = "sleeping"

(* ------------------------------------------------------------------ *)
(* C15: when a fork is rejected the parent reports it and terminates    *)
(* with a non-zero status, leaving the children created before it as    *)
(* they are: it issues no wait and no munmap, none of them is reaped,   *)
(* and no line labelled "parent forked children" or later is printed.   *)
(* ------------------------------------------------------------------ *)
ForkRejected == \E k \in 1..Len(calls) : calls[k].op = "fork" /\ ~calls[k].ok
IsLateCommit(l) ==
    l.kind = "commit" /\ l.text \in {"parent forked children",
                                      "parent reaped children",
                                      "parent mem unmapped"}

C15_ForkFailureNoCleanup ==
    ForkRejected =>
        /\ pc = "done"
        /\ status # -1 /\ status # EXIT_SUCCESS
        /\ errs = <<[by |-> Parent, line |-> PerrorLine("fork")]>>
        /\ CallIdx("wait") = {}
        /\ CallIdx("munmap") = {}
        /\ Cardinality({c \in Children : chld[c] # "none"}) = Len(OkForks)
        /\ Len(OkForks) < NUM_CHLD
        /\ \A c \in Children : chld[c] \in {"none", "created", "sleeping", "exited"}
        /\ SelectSeq(ParentPrinted, IsLateCommit) = <<>>
        /\ SelectSeq(Output, IsLateCommit) = <<>>

\* the second fork is rejected while the first child is asleep
C15_Witness ==
    /\ ForkRejected
    /\ Len(OkForks) >= 1
    /\ \E c \in Children : chld[c] = "sleeping"

(* ------------------------------------------------------------------ *)
(* C16: every reporter call that opens the accounting source closes it  *)
(* before it returns, whether or not the metric is there: inside a call *)
(* exactly one handle is open, outside a call none, so that opens and   *)
(* closes are equal in number at every checkpoint boundary and every    *)
(* fork was issued with no handle open.                                 *)
(* ------------------------------------------------------------------ *)
Opens == Cardinality({k \in CallIdx("fopen") : calls[k].ok})
Closes == Cardinality(CallIdx("fclose"))
Reading == pc \in {"pmc_fgets", "pmc_fclose"}

C16_State ==
    /\ Reading => (fp /\ Opens = Closes + 1)
    /\ ~Reading => (~fp /\ Opens = Closes)
    /\ pc \in {"fork0", "fork"} => ~fp

C16_HandleClosed ==
    /\ []C16_State
    /\ [][(\E c \in Children : chld[c] = "none" /\ chld'[c] # "none") =>
              (~fp /\ Opens = Closes)]_vars

\* a call on a source without the metric has returned, handle closed
C16_Witness ==
    /\ MetricLines = {} /\ Len(meminfo) >= 1
    /\ pc = "mmap"
    /\ Opens = 1 /\ Closes = 1 /\ ~fp

(* ------------------------------------------------------------------ *)
(* C17: every run terminates.  With the parent and every child          *)
(* scheduled fairly, the parent eventually exits, with status 0 after   *)
(* the last checkpoint or with a non-zero status at a usage or OS       *)
(* error; it never stays in the wait loop for ever, where the waits     *)
(* still to be made are as many as the children not yet reaped.         *)
(* ------------------------------------------------------------------ *)
C17_Terminates ==
    /\ <>(pc = "done")
    /\ [](pc = "done" =>
            \/ status = EXIT_SUCCESS /\ cp = 7 /\ steps = Order
            \/ status = EXIT_FAILURE /\ (~ValidArgs \/ FatalCallFailed))
    /\ (pc = "wait") ~> (pc # "wait")
    /\ [](pc = "wait" => NUM_CHLD - i = Cardinality(Unreaped))

\* the parent is blocked in wait(): every child is still asleep
C17_Witness ==
    /\ pc = "wait"
    /\ i = 0
    /\ \A c \in Children : chld[c] = "sleeping"

(* ------------------------------------------------------------------ *)
(* C18: a child only sleeps and exits: it creates no process, prints    *)
(* no checkpoint line, never waits, unmaps or writes the region; so at  *)
(* most NUM_CHLD children are ever created (exactly NUM_CHLD on a       *)
(* successful run) and every checkpoint line on standard output was     *)
(* written by the parent.                                               *)
(* ------------------------------------------------------------------ *)
Created == {c \in Children : chld[c] # "none"}
WrittenByChild(k) == ~IsParentEntry(stream[k])

C18_ChildNeverPrints ==
    /\ \A k \in 1..Len(stream) : IsKindCommit(stream[k].line) => ~WrittenByChild(k)
    /\ Cardinality(Created) = Len(OkForks)
    /\ Len(OkForks) <= NUM_CHLD
    /\ Cardinality(CallIdx("fork")) <= NUM_CHLD
    /\ Cardinality(CallIdx("wait")) <= NUM_CHLD
    /\ Cardinality(CallIdx("munmap")) <= 1
    /\ (pc = "done" /\ status = EXIT_SUCCESS) => Len(OkForks) = NUM_CHLD

\* the same statement for a standard output that is a terminal
C18_HoldsOnTerminal == tty => C18_ChildNeverPrints

(* ------------------------------------------------------------------ *)
(* C19: the result of munmap is never inspected.  Whether it succeeds   *)
(* or fails, the parent goes on to the "parent mem unmapped" checkpoint *)
(* and exits with status 0; munmap is the only call whose failure does  *)
(* not end the run, and after a failed munmap the checkpoint is         *)
(* reported with the region still mapped.                               *)
(* ------------------------------------------------------------------ *)
MunmapFailed == \E k \in CallIdx("munmap") : ~calls[k].ok
UnmappedReported ==
    \E k \in 1..Len(ParentPrinted) :
        IsKindCommit(ParentPrinted[k]) /\ ParentPrinted[k].text = "parent mem unmapped"

C19_UnmapUnchecked ==
    /\ CallIdx("munmap") # {} =>
          /\ cp = 7
          /\ errs = <<>> \/ (pc = "done" /\ FatalCallFailed)
          /\ (pc = "done" /\ ~FatalCallFailed) =>
                /\ status = EXIT_SUCCESS
                /\ steps = Order
                /\ MetricLines # {} => UnmappedReported
    /\ \A k \in 1..Len(calls) :
          (~calls[k].ok /\ (k < Len(calls) \/ pc # "done")) => IsMunmap(calls[k])
    /\ (cp = 7 /\ pc # "done") => (mapped <=> MunmapFailed)
    /\ UnmappedReported => CallIdx("munmap") # {}

\* the checkpoint has been reported although munmap failed: still mapped
C19_Witness ==
    /\ MunmapFailed
    /\ UnmappedReported
    /\ mapped
    /\ pc = "exit"

(* ------------------------------------------------------------------ *)
(* C20: one call of print_mem_commit prints a labelled line for every   *)
(* line of the accounting source that begins with the metric key, not   *)
(* only the first: k such lines give exactly k lines with the label of  *)
(* the call, in source order (k may be 0, 1 or more).                   *)
(* ------------------------------------------------------------------ *)
RECURSIVE Echoed(_, _)
\* what a call labelled msg prints for the first n lines of the source
Echoed(n, msg) ==
    IF n = 0 THEN <<>>
    ELSE Echoed(n - 1, msg)
         \o (IF meminfo[n] = memstr THEN <<CommitLine(n, msg)>> ELSE <<>>)

RECURSIVE Reported(_)
\* what the first c calls print when each runs to the end of the source
Reported(c) ==
    IF c = 0 THEN <<>>
    ELSE Reported(c - 1) \o Echoed(Len(meminfo), Label(c))

C20_LinePerMatchingLine ==
    /\ SelectSeq(ParentPrinted, IsKindCommit) =
          Reported(Closes) \o (IF Reading THEN Echoed(ln, Label(cp)) ELSE <<>>)
    /\ Len(Echoed(Len(meminfo), "")) = Cardinality(MetricLines)
    /\ (pc = "pmc_fclose") =>
          Len(SelectSeq(ParentPrinted, IsKindCommit)) = cp * Cardinality(MetricLines)

\* the first call has printed two "initial state" lines for a source
\* holding the metric twice
C20_Witness ==
    /\ Cardinality(MetricLines) = 2
    /\ cp = 1
    /\ pc = "pmc_fclose"
    /\ SelectSeq(ParentPrinted, IsKindCommit)
          = <<CommitLine(1, "initial state"), CommitLine(2, "initial state")>>

====
